---- MODULE Spec2Model ----
(***************************************************************************)
(* Model of the HTTP client of go-webservice: the header bag              *)
(* (net/http.Header as the builders use it), the three builders            *)
(* (StreamRequester, Requester, JSONRequester), the Client factories,      *)
(* Prepare / Do, the construction of clients and their connections, and    *)
(* the helpers Context, combineURL and userAgent.                          *)
(* Then the Server: Start and Stop as interleaved goroutines, and a       *)
(* request through the access log and recover middlewares.               *)
(*                                                                         *)
(* A header bag is a Go map, a reference: it lives in the heap `bags` and  *)
(* a builder holds its address.  Address 0 is the nil map.                 *)
(***************************************************************************)
EXTENDS Integers, Sequences, FiniteSets, TLC

VARIABLES
    client,     \* the Client the builders are created from
    bags,       \* heap of header maps: address -> contents
    builders,   \* builder values the program holds, in creation order
    derive,     \* history: how each builder value was obtained
    panicked,   \* a write to a nil map panicked
    calls,      \* Prepare / Do invocations: one record per goroutine
    conns,      \* heap of http.Client values: address -> fields
    clients,    \* Client values made by NewCustomClient and Clone
    origin,     \* history: how each Client value was obtained
    eval,       \* one evaluation of a function: its inputs and result
    server,     \* the Server: running flag, its two http.Servers, middleware
    threads,    \* goroutines inside Server.Start or Server.Stop
    requests    \* requests travelling through the middleware chain

\* The state outside the request builders.
web == <<server, threads, requests>>

ext == <<conns, clients, origin, eval, web>>

vars == <<client, bags, builders, derive, panicked, calls, ext>>

----------------------------------------------------------------------------
(* Bounds *)

MaxBuilders == 3        \* builder values held, builder operations alone
MaxSiblings == 4        \* builder values held, chains from one factory value
MaxCallBuilders == 2    \* builder values held, when requests are issued too
MaxCalls == 2           \* Prepare / Do invocations, concurrent or in sequence
MaxSoloBuilders == 1    \* builder values held, one request at a time
MaxSoloCalls == 1       \* Prepare / Do invocations, one request at a time
MaxJSONBuilders == 3    \* builder values held, chains from JSON builders
MaxDuration == 3        \* largest timeout a builder is given, in time units
MaxNow == 2             \* latest time at which Context is called
MaxStrLen == 3          \* length of the base and of the endpoint given to combineURL
MaxConns == 1           \* http.Client values the caller makes itself
MaxCreated == 2         \* Client values made, construction alone
MaxClients == 2         \* Client values made, SetTimeout called on them too
MaxSets == 1            \* calls of SetTimeout
MaxDefaultBuilders == 2 \* builder values held, default headers changing
MaxDefaultValues == 2   \* values the client holds under one default header
MaxOpts == 2            \* request options given to one factory call
MaxThreads == 3         \* goroutines calling Server.Start or Server.Stop
MaxRequests == 1        \* requests the server handles

----------------------------------------------------------------------------
(* Header bag: net/http.Header *)

Nil == 0

\* Header names as callers may spell them.
RawKeys == {"h1", "H1"}

\* textproto.CanonicalMIMEHeaderKey on the names in use: first letter and
\* every letter after a hyphen upper case, the rest lower case.
Canon(k) ==
    CASE k = "h1" -> "H1"
      [] k = "H1" -> "H1"
      [] k = "mh" -> "Mh"
      [] k = "content-type" -> "Content-Type"
      [] k = "Content-Type" -> "Content-Type"
      [] k = "User-Agent" -> "User-Agent"
      [] OTHER -> k

HeaderNames == {"H1", "Mh", "Content-Type", "User-Agent"}

Vals == {"v1", "v2"}

\* make(http.Header): no name has a value.
EmptyHeader == [n \in HeaderNames |-> <<>>]

\* Header.Add written as Set: the earlier values are dropped.
HeaderAdd_Replacing(h, k, v) == [h EXCEPT ![Canon(k)] = <<v>>]

\* Header.Add: append under the canonical name.
HeaderAdd(h, k, v) == [h EXCEPT ![Canon(k)] = Append(@, v)]

\* Header.Set written as Add: the earlier values are kept.
HeaderSet_Appending(h, k, v) == [h EXCEPT ![Canon(k)] = Append(@, v)]

\* Header.Set: replace whatever is under the canonical name.
HeaderSet(h, k, v) == [h EXCEPT ![Canon(k)] = <<v>>]

\* Header.Get: first value under the canonical name, "" if none.
HeaderGet(h, k) == IF h[Canon(k)] = <<>> THEN "" ELSE Head(h[Canon(k)])

\* Header.Values
HeaderValues(h, k) == h[Canon(k)]

\* A Go map[string]string ranged over: the pairs in the order the runtime
\* happens to yield them (names distinct as spelled).
\* The maps in use: empty, one name, and one map holding both spellings
\* of a name, in either iteration order.
Pair(k, v) == [k |-> k, v |-> v]
MapIters ==
    {<<>>, <<Pair("h1", "v1")>>,
     <<Pair("h1", "v1"), Pair("H1", "v2")>>,
     <<Pair("H1", "v2"), Pair("h1", "v1")>>}

\* for k, v := range headers { h.Set(k, v) }
RECURSIVE SetAll(_, _)
SetAll(h, it) ==
    IF it = <<>> THEN h
    ELSE SetAll(HeaderSet(h, Head(it).k, Head(it).v), Tail(it))

----------------------------------------------------------------------------
(* Client and builders *)

Timeouts == {0, 5}

MwKinds == {"pass", "add", "wrap", "fail"}

ZeroClient ==
    [host |-> "", conn |-> Nil, defaultTimeout |-> 0, dheaders |-> Nil,
     middlewares |-> <<>>]

Kinds == {"stream", "buffered", "json"}

\* var req StreamRequester / Requester{} / JSONRequester{}
ZeroBuilder(kind) ==
    [kind |-> kind, cli |-> ZeroClient, headers |-> Nil, timeout |-> 0]

\* The history entry of a builder value: the call that returned it.
\* snap: the header values the builder had when it was returned.
How(op, parent, k, v, t, it, opts, snap) ==
    [op |-> op, parent |-> parent, k |-> k, v |-> v, t |-> t, it |-> it,
     opts |-> opts, snap |-> snap]

\* Contents of a builder's header bag (a nil map reads as empty).
Headers(b) == IF b.headers = Nil THEN EmptyHeader ELSE bags[b.headers]

\* Header.Clone returning the map it was given.
HeaderClone_Alias(a) == [addr |-> a, heap |-> bags]

\* Header.Clone on the heap: a nil map clones to nil, any other map to a
\* newly allocated map with the same contents.
HeaderClone(a) ==
    IF a = Nil THEN [addr |-> Nil, heap |-> bags]
    ELSE [addr |-> Len(bags) + 1, heap |-> Append(bags, bags[a])]

\* StreamRequester.Clone copying the struct only: the map is shared.
Clone_Shallow(req) == [req |-> req, heap |-> bags]

\* StreamRequester.Clone: same client and timeout, cloned header map.
Clone(req) ==
    LET c == HeaderClone(req.headers)
    IN  [req |-> [req EXCEPT !.headers = c.addr], heap |-> c.heap]


----------------------------------------------------------------------------
(* Request options: functions applied to the builder under construction *)

Opt(o, k, v, t, it) == [o |-> o, k |-> k, v |-> v, t |-> t, it |-> it]

\* The option lists the builder-only specification passes to a factory.
OptSeqs == {<<>>, <<Opt("RequestHeader", "h1", "v1", 0, <<>>)>>}

\* RequestHeader replacing the values under the name.
ApplyOpt_HeaderSets(r, o) ==
    CASE o.o = "RequestTimeout" -> [r EXCEPT !.timeout = o.t]
      [] o.o = "RequestHeaders" -> [r EXCEPT !.h = SetAll(r.h, o.it)]
      [] o.o = "RequestHeader" -> [r EXCEPT !.h = HeaderSet(r.h, o.k, o.v)]
      [] o.o = "RequestUniqueHeader" -> [r EXCEPT !.h = HeaderSet(r.h, o.k, o.v)]
      [] o.o = "WithDefaultHeader" ->
            IF HeaderGet(r.h, o.k) # "" THEN r
            ELSE [r EXCEPT !.h = HeaderSet(r.h, o.k, o.v)]

\* One option applied to r = [timeout, h]: the builder's timeout and the
\* contents of its (own, freshly cloned) header map.
ApplyOpt(r, o) ==
    CASE o.o = "RequestTimeout" -> [r EXCEPT !.timeout = o.t]
      [] o.o = "RequestHeaders" -> [r EXCEPT !.h = SetAll(r.h, o.it)]
      [] o.o = "RequestHeader" -> [r EXCEPT !.h = HeaderAdd(r.h, o.k, o.v)]
      [] o.o = "RequestUniqueHeader" -> [r EXCEPT !.h = HeaderSet(r.h, o.k, o.v)]
      [] o.o = "WithDefaultHeader" ->
            IF HeaderGet(r.h, o.k) # "" THEN r
            ELSE [r EXCEPT !.h = HeaderSet(r.h, o.k, o.v)]

RECURSIVE ApplyOpts(_, _)
ApplyOpts(r, opts) ==
    IF opts = <<>> THEN r ELSE ApplyOpts(ApplyOpt(r, Head(opts)), Tail(opts))

\* Client.NewStreamRequest: clone the default headers, apply the options.
StreamRequestOf(opts) ==
    ApplyOpts([timeout |-> 0, h |-> bags[client.dheaders]], opts)

\* Content-Type added to whatever the options left under the name.
JSONRequestOf_Adding(opts) ==
    LET r == StreamRequestOf(opts)
    IN  [r EXCEPT !.h = HeaderAdd(r.h, "Content-Type", "application/json")]

\* Client.NewJSONRequest: the buffered builder, then Content-Type is set.
JSONRequestOf(opts) ==
    LET r == StreamRequestOf(opts)
    IN  [r EXCEPT !.h = HeaderSet(r.h, "Content-Type", "application/json")]

----------------------------------------------------------------------------
(* Builder operations.  `limit` bounds the builder values held. *)

CanBuild(limit) == ~panicked /\ Len(builders) < limit

\* The new builder given the client's own map.
NewHeaders_Shared(cli) == [addr |-> cli.dheaders, heap |-> bags]

\* NewStreamRequest: headers: cli.dheaders.Clone()
NewHeaders(cli) == HeaderClone(cli.dheaders)

\* The factory's result r written to the builder's map, the builder held.
Produce(kind, r, opts) ==
    /\ LET c == NewHeaders(client)
       IN  /\ bags' = [c.heap EXCEPT ![c.addr] = r.h]
           /\ builders' = Append(builders,
                   [kind |-> kind, cli |-> client, headers |-> c.addr,
                    timeout |-> r.timeout])
    /\ derive' = Append(derive, How("New", 0, "", "", 0, <<>>, opts, r.h))
    /\ UNCHANGED <<ext, client, panicked, calls>>

NewStreamRequest(limit, opts) ==
    CanBuild(limit) /\ Produce("stream", StreamRequestOf(opts), opts)

NewRequest(limit, opts) ==
    CanBuild(limit) /\ Produce("buffered", StreamRequestOf(opts), opts)

NewJSONRequest(limit, opts) ==
    CanBuild(limit) /\ Produce("json", JSONRequestOf(opts), opts)

\* A builder declared without a client: var req Requester.
ZeroValue(limit, kind) ==
    /\ CanBuild(limit)
    /\ builders' = Append(builders, ZeroBuilder(kind))
    /\ derive' = Append(derive, How("Zero", 0, "", "", 0, <<>>, <<>>, EmptyHeader))
    /\ UNCHANGED <<ext, client, bags, panicked, calls>>

\* StreamRequester.Clone called by the program (the wrappers have none).
CloneOp(limit, b) ==
    /\ CanBuild(limit)
    /\ b \in 1..Len(builders)
    /\ builders[b].kind = "stream"
    /\ LET c == Clone(builders[b])
       IN  /\ bags' = c.heap
           /\ builders' = Append(builders, c.req)
    /\ derive' = Append(derive,
            How("Clone", b, "", "", 0, <<>>, <<>>, Headers(builders[b])))
    /\ UNCHANGED <<ext, client, panicked, calls>>

\* The shape shared by WithHeader, WithUniqueHeader and WithHeaders: clone,
\* write the clone's map (a write to a nil map panics), return the clone.
\* `writes`: the call writes the map at all (WithHeaders with an empty map
\* does not: its loop body never runs).  `newh`: what the writes make of the
\* clone's contents, which are the receiver's.
CloneAndWrite(limit, b, writes, newh, op, k, v, it) ==
    /\ CanBuild(limit)
    /\ b \in 1..Len(builders)
    /\ LET c == Clone(builders[b])
           a == c.req.headers
       IN  IF a = Nil /\ writes
           THEN /\ panicked' = TRUE
                /\ UNCHANGED <<ext, client, bags, builders, derive, calls>>
           ELSE /\ bags' = IF a = Nil \/ ~writes THEN c.heap
                           ELSE [c.heap EXCEPT ![a] = newh]
                /\ builders' = Append(builders, c.req)
                /\ derive' = Append(derive,
                        How(op, b, k, v, 0, it, <<>>,
                            IF a = Nil THEN EmptyHeader ELSE bags'[a]))
                /\ UNCHANGED <<ext, client, panicked, calls>>

WithHeader(limit, b, k, v) ==
    CloneAndWrite(limit, b, TRUE, HeaderAdd(Headers(builders[b]), k, v),
                  "WithHeader", k, v, <<>>)

WithUniqueHeader(limit, b, k, v) ==
    CloneAndWrite(limit, b, TRUE, HeaderSet(Headers(builders[b]), k, v),
                  "WithUniqueHeader", k, v, <<>>)

WithHeaders(limit, b, it) ==
    CloneAndWrite(limit, b, it # <<>>, SetAll(Headers(builders[b]), it),
                  "WithHeaders", "", "", it)

\* StreamRequester.WithTimeout: the receiver's copy with the timeout set.
\* The copy holds the receiver's header map, not a clone of it.
WithTimeout(limit, b, t) ==
    /\ CanBuild(limit)
    /\ b \in 1..Len(builders)
    /\ builders' = Append(builders, [builders[b] EXCEPT !.timeout = t])
    /\ derive' = Append(derive,
            How("WithTimeout", b, "", "", t, <<>>, <<>>, Headers(builders[b])))
    /\ UNCHANGED <<ext, client, bags, panicked, calls>>

\* Client.AddDefaultHeader: cli.dheaders.Add(key, value)
AddDefaultHeader(k, v) ==
    /\ ~panicked
    /\ Len(bags[client.dheaders][Canon(k)]) < MaxDefaultValues
    /\ bags' = [bags EXCEPT ![client.dheaders] = HeaderAdd(@, k, v)]
    /\ UNCHANGED <<ext, client, builders, derive, panicked, calls>>

\* Client.SetDefaultHeader: cli.dheaders.Set(key, value)
SetDefaultHeader(k, v) ==
    /\ ~panicked
    /\ bags' = [bags EXCEPT ![client.dheaders] = HeaderSet(@, k, v)]
    /\ UNCHANGED <<ext, client, builders, derive, panicked, calls>>

----------------------------------------------------------------------------
(* The Server.  Echo holds two http.Servers, Server and TLSServer; each is  *)
(* a listener that is accepting or not and the flag Shutdown sets.           *)

AccessLogLevelVerbose == 0
AccessLogLevelInfo == 1
AccessLogLevelWarn == 2
AccessLogLevelError == 3

AccessLogLevels ==
    {AccessLogLevelVerbose, AccessLogLevelInfo, AccessLogLevelWarn,
     AccessLogLevelError}

\* ServerOptions.AccessLogDiscarder left nil: nothing is discarded.
NoDiscarder == [set |-> FALSE, level |-> AccessLogLevelVerbose, filter |-> FALSE]

\* NewAccessLogDiscarder(level, routeFilter); `filter` is routeFilter # nil.
NewAccessLogDiscarder(level, filter) ==
    [set |-> TRUE, level |-> level, filter |-> filter]

Discarders ==
    {NoDiscarder} \cup
    {NewAccessLogDiscarder(l, f) : l \in AccessLogLevels, f \in BOOLEAN}

IdleServer == [serving |-> FALSE, inShutdown |-> FALSE]

\* NewServer(address, opts): opts.TLSCertFile # "", !opts.AccessLogDisabled
\* and opts.AccessLogDiscarder.  The middleware chain is, from the outside
\* in: the access log (unless disabled), recover, the route handler; the
\* metrics and gzip middlewares pass the handler's result on untouched.
NewServer(tls, accessLog, discarder) ==
    [running |-> 0, tls |-> tls,
     Server |-> IdleServer, TLSServer |-> IdleServer,
     accessLog |-> accessLog, discarder |-> discarder]

\* A server with default options that no goroutine has touched yet.
NoServer ==
    /\ server = NewServer(FALSE, TRUE, NoDiscarder)
    /\ threads = <<>>
    /\ requests = <<>>

----------------------------------------------------------------------------
(* Initial state: a client made by NewCustomClient(host, options) *)

\* Request middlewares, by what they do to the request they are given:
\*   pass  returns it as it is
\*   add   req.Header.Add("mh", "mv") and returns it  (client_test.go:32)
\*   wrap  returns req.WithContext(ctx): a new request, the same Header map
\*   fail  returns an error                           (request_test.go:54)
MwLists ==
    {<<>>, <<"add">>, <<"fail">>, <<"wrap", "add">>, <<"pass", "fail">>,
     <<"fail", "add">>}

\* No function is being evaluated.
NoEval == [f |-> "none"]

InitRequests(mws) ==
    /\ client = [host |-> "http://h", conn |-> 1, defaultTimeout |-> 5,
                 dheaders |-> 1, middlewares |-> mws]
    /\ bags = <<HeaderAdd(EmptyHeader, "User-Agent", "ua")>>
    /\ builders = <<>>
    /\ derive = <<>>
    /\ panicked = FALSE
    /\ calls = <<>>

\* No Client value other than `client` has been made.
NoClients == conns = <<>> /\ clients = <<>> /\ origin = <<>>

InitWith(mws) == InitRequests(mws) /\ NoClients /\ NoServer /\ eval = NoEval

Init == \E mws \in MwLists : InitWith(mws)

\* The builder operations never read the middlewares.
InitBuild == InitWith(<<>>)

NextBuild ==
    \/ \E opts \in OptSeqs : NewStreamRequest(MaxBuilders, opts)
    \/ \E opts \in OptSeqs : NewRequest(MaxBuilders, opts)
    \/ \E opts \in OptSeqs : NewJSONRequest(MaxBuilders, opts)
    \/ \E kind \in Kinds : ZeroValue(MaxBuilders, kind)
    \/ \E b \in 1..Len(builders) : CloneOp(MaxBuilders, b)
    \/ \E b \in 1..Len(builders), k \in RawKeys, v \in Vals :
          WithHeader(MaxBuilders, b, k, v)
    \/ \E b \in 1..Len(builders), k \in RawKeys, v \in Vals :
          WithUniqueHeader(MaxBuilders, b, k, v)
    \/ \E b \in 1..Len(builders), it \in MapIters : WithHeaders(MaxBuilders, b, it)
    \/ \E b \in 1..Len(builders), t \in Timeouts : WithTimeout(MaxBuilders, b, t)

SpecBuild == InitBuild /\ [][NextBuild]_vars

\* Chains of mutators from one factory value: one more builder value held,
\* fewer arguments.
NextSiblings ==
    \/ NewRequest(MaxSiblings, <<>>)
    \/ \E b \in 1..Len(builders), k \in RawKeys, v \in Vals :
          WithHeader(MaxSiblings, b, k, v)
    \/ \E b \in 1..Len(builders), v \in Vals :
          WithUniqueHeader(MaxSiblings, b, "H1", v)
    \/ \E b \in 1..Len(builders) : WithHeaders(MaxSiblings, b, <<Pair("h1", "v1")>>)
    \/ \E b \in 1..Len(builders) : WithTimeout(MaxSiblings, b, 5)

SpecSiblings == InitBuild /\ [][NextSiblings]_vars

\* The request options compared with the With* calls: a map is written as
\* one of its iteration orders.
EquivOptions ==
    {Opt("RequestTimeout", "", "", 5, <<>>),
     Opt("RequestHeader", "h1", "v1", 0, <<>>),
     Opt("RequestUniqueHeader", "H1", "v2", 0, <<>>),
     Opt("RequestHeaders", "", "", 0, <<Pair("h1", "v1")>>),
     Opt("RequestHeaders", "", "", 0, <<Pair("h1", "v1"), Pair("H1", "v2")>>),
     Opt("RequestHeader", "Content-Type", "v1", 0, <<>>)}

EquivOptSeqs == UNION {[1..n -> EquivOptions] : n \in 1..MaxOpts}

\* The orders in which a range over the map may yield its pairs.
Iters(it) == IF Len(it) = 2 THEN {it, <<it[2], it[1]>>} ELSE {it}

\* The option list as one run of the factory may see it: each map in one
\* of its iteration orders.
RECURSIVE Runs(_)
Runs(opts) ==
    IF opts = <<>> THEN {<<>>}
    ELSE {<<[Head(opts) EXCEPT !.it = it]>> \o r :
              it \in Iters(Head(opts).it), r \in Runs(Tail(opts))}

\* A kind of builder and a list of options to make it with, both ways.
InitEquiv ==
    /\ InitRequests(<<>>) /\ NoClients /\ NoServer
    /\ \E kind \in Kinds, opts \in EquivOptSeqs :
           eval = [f |-> "options", kind |-> kind, opts |-> opts]

\* The factory of the given kind.
Factory(kind, limit, opts) ==
    \/ kind = "stream" /\ NewStreamRequest(limit, opts)
    \/ kind = "buffered" /\ NewRequest(limit, opts)
    \/ kind = "json" /\ NewJSONRequest(limit, opts)

\* The builder the factory returned when given the options, 0 if none yet.
WithOptions ==
    IF \E b \in 1..Len(builders) : derive[b].op = "New" /\ derive[b].opts # <<>>
    THEN CHOOSE b \in 1..Len(builders) :
             derive[b].op = "New" /\ derive[b].opts # <<>>
    ELSE 0

\* The builders of the other way: the factory's, made without options, and
\* those the With* calls returned so far, in order.
Chain ==
    {b \in 1..Len(builders) : ~(derive[b].op = "New" /\ derive[b].opts # <<>>)}

\* The last of them.
Tip == CHOOSE b \in Chain : \A c \in Chain : c <= b

\* cli.NewXRequest(opts...)
OptionFactory ==
    /\ eval.f = "options" /\ WithOptions = 0
    /\ \E opts \in Runs(eval.opts) : Factory(eval.kind, MaxOpts + 2, opts)

\* cli.NewXRequest()
PlainFactory ==
    /\ eval.f = "options" /\ Chain = {}
    /\ Factory(eval.kind, MaxOpts + 2, <<>>)

\* The With* call that corresponds to the next option, on the last builder.
ChainStep ==
    /\ eval.f = "options" /\ Chain # {}
    /\ Cardinality(Chain) <= Len(eval.opts)
    /\ LET o == eval.opts[Cardinality(Chain)]
           limit == MaxOpts + 2
       IN  \/ o.o = "RequestTimeout" /\ WithTimeout(limit, Tip, o.t)
           \/ o.o = "RequestHeader" /\ WithHeader(limit, Tip, o.k, o.v)
           \/ o.o = "RequestUniqueHeader"
                  /\ WithUniqueHeader(limit, Tip, o.k, o.v)
           \/ o.o = "RequestHeaders"
                  /\ \E it \in Iters(o.it) : WithHeaders(limit, Tip, it)

NextEquiv == OptionFactory \/ PlainFactory \/ ChainStep

SpecEquiv == InitEquiv /\ [][NextEquiv]_vars

\* Builders made while the client's default headers change.
NextDefaults ==
    \/ NewStreamRequest(MaxDefaultBuilders, <<>>)
    \/ NewRequest(MaxDefaultBuilders, <<>>)
    \/ NewJSONRequest(MaxDefaultBuilders, <<>>)
    \/ \E v \in Vals : AddDefaultHeader("h1", v)
    \/ \E v \in Vals : SetDefaultHeader("H1", v)

SpecDefaults == InitBuild /\ [][NextDefaults]_vars

\* The option lists and the header maps passed where Content-Type matters.
JSONOptSeqs ==
    {<<>>,
     <<Opt("RequestHeader", "Content-Type", "v1", 0, <<>>)>>,
     <<Opt("RequestHeaders", "", "", 0, <<Pair("content-type", "v1")>>)>>}

JSONMaps == {<<Pair("h1", "v1")>>, <<Pair("Content-Type", "v1")>>}

\* JSON builders, and the builders derived from them, Content-Type among
\* the names written.
NextJSON ==
    \/ \E opts \in JSONOptSeqs : NewJSONRequest(MaxJSONBuilders, opts)
    \/ \E b \in 1..Len(builders), k \in {"h1", "content-type"},
          v \in {"v1", "application/json"} :
          WithHeader(MaxJSONBuilders, b, k, v)
    \/ \E b \in 1..Len(builders), k \in {"H1", "Content-Type"} :
          WithUniqueHeader(MaxJSONBuilders, b, k, "v1")
    \/ \E b \in 1..Len(builders), it \in JSONMaps :
          WithHeaders(MaxJSONBuilders, b, it)
    \/ \E b \in 1..Len(builders) : WithTimeout(MaxJSONBuilders, b, 5)

SpecJSON == InitBuild /\ [][NextJSON]_vars

----------------------------------------------------------------------------
(* Prepare and Do.  A call is a record in `calls`; calls may overlap. *)

Statuses == {200, 500}

\* What conn.Do returns: an error, or a response with a status and a body.
TransportOutcomes ==
    {[failed |-> TRUE, status |-> 0]}
    \cup {[failed |-> FALSE, status |-> st] : st \in Statuses}

NoRequest == [id |-> 0, hdr |-> Nil]

\* The contents of the map at address a, as a reader sees them.
HeapRead(heap, a) == IF a = Nil THEN EmptyHeader ELSE heap[a]

\* validate with the check left out.
validate_Missing(req) == ""

\* StreamRequester.validate: the error, "" for nil.
validate(req) == IF req.cli.conn = Nil THEN "invalid builder" ELSE ""

\* A call of method op on builder value b, before its first statement.
\* Fields after `closes` are history: the middlewares run, the request each
\* received and returned, the receiver's header values when the call began,
\* when Prepare returned and when the call ended, the headers the transport
\* was given and what it returned, whether reading the body succeeded,
\* whether the payload could be serialized,
\* the calls it overlapped, and the maps it read and wrote.
NewCall(b, op, active) ==
    [op |-> op, b |-> b, req |-> builders[b], pc |-> "start",
     hreq |-> NoRequest, ids |-> 0, i |-> 0,
     request |-> NoRequest, status |-> 0, body |-> "none", err |-> "",
     errIdx |-> -1, sends |-> 0, closes |-> 0,
     ran |-> <<>>, seen |-> <<>>, rets |-> <<>>,
     before |-> Headers(builders[b]), prepared |-> <<>>, sent |-> <<>>,
     got |-> <<>>, read |-> <<>>, marshal |-> TRUE,
     after |-> <<>>,
     with |-> active, rd |-> {}, wr |-> {}]

\* The call ends: what it leaves in the receiver's map is recorded.
Finish(c, heap) ==
    [c EXCEPT !.pc = "done", !.after = <<HeapRead(heap, c.req.headers)>>]

\* An error return of Prepare, and so of Do: no request, status 0, no body.
Fail(c, err, heap) ==
    Finish([c EXCEPT !.err = err, !.request = NoRequest, !.status = 0,
                     !.body = "none"], heap)

\* Prepare returns hreq: the caller has it (Prepare), or Do goes on to send.
AfterPrepare(c, heap) ==
    LET d == [c EXCEPT !.prepared = <<HeapRead(heap, c.hreq.hdr)>>]
    IN  IF c.op = "Prepare"
        THEN Finish([d EXCEPT !.request = c.hreq], heap)
        ELSE [d EXCEPT !.pc = "send"]

\* The loop of Prepare handing the first request to every middleware.
LoopInput_Original(c, returned) == [id |-> 1, hdr |-> c.req.headers]

\* hreq, err = middlewares[i](ctx, hreq): the next middleware is given what
\* this one returned.
LoopInput(c, returned) == returned

\* A payload that cannot be serialized going unnoticed.
MarshalError_Ignored(req, marshalOk) == ""

\* JSONRequester.Prepare / Do: data, err := json.Marshal(body), the error
\* wrapped and returned; "" for nil.  The other builders take a reader.
MarshalError(req, marshalOk) ==
    IF req.kind = "json" /\ ~marshalOk THEN "invalid request body" ELSE ""

\* JSONRequester: json.Marshal; Requester.Do: Context; StreamRequester.Do:
\* Prepare: validate, http.NewRequestWithContext, hreq.Header = req.headers,
\* up to the middleware loop.
StartCall(limit, b, op, marshalOk, createOk) ==
    /\ ~panicked
    /\ Len(calls) < limit
    /\ b \in 1..Len(builders)
    /\ builders[b].kind # "json" => marshalOk
    /\ LET req == builders[b]
           me == Len(calls) + 1
           active == {p \in 1..Len(calls) : calls[p].pc # "done"}
           c0 == [NewCall(b, op, active) EXCEPT !.marshal = marshalOk]
           c1 == IF MarshalError(req, marshalOk) # ""
                 THEN Fail(c0, MarshalError(req, marshalOk), bags)
                 ELSE IF validate(req) # "" THEN Fail(c0, validate(req), bags)
                 ELSE IF ~createOk THEN Fail(c0, "error creating request", bags)
                 ELSE LET c == [c0 EXCEPT !.hreq = [id |-> 1, hdr |-> req.headers],
                                          !.ids = 1]
                      IN  IF Len(req.cli.middlewares) = 0
                          THEN AfterPrepare(c, bags)
                          ELSE [c EXCEPT !.pc = "mw", !.i = 1]
       IN  calls' = Append(
                [p \in 1..Len(calls) |->
                    IF p \in active THEN [calls[p] EXCEPT !.with = @ \cup {me}]
                    ELSE calls[p]],
                c1)
    /\ UNCHANGED <<ext, client, bags, builders, derive, panicked>>

\* One iteration of the middleware loop of Prepare and, after the last
\* middleware, Prepare's return.
RunMiddleware(p) ==
    /\ ~panicked
    /\ p \in 1..Len(calls)
    /\ calls[p].pc = "mw"
    /\ LET c == calls[p]
           mw == c.req.cli.middlewares[c.i]
           in == c.hreq
           heap == IF mw = "add" /\ in.hdr # Nil
                   THEN [bags EXCEPT ![in.hdr] = HeaderAdd(@, "mh", "mv")]
                   ELSE bags
           out == IF mw = "wrap" THEN [id |-> c.ids + 1, hdr |-> in.hdr] ELSE in
           c1 == [c EXCEPT !.ran = Append(@, c.i),
                           !.seen = Append(@, in.id),
                           !.rets = Append(@, out.id),
                           !.ids = IF mw = "wrap" THEN @ + 1 ELSE @,
                           !.wr = IF mw = "add" THEN @ \cup {in.hdr} ELSE @]
           c2 == IF mw = "fail"
                 THEN Fail([c1 EXCEPT !.errIdx = c.i - 1],
                           "failed to run middleware", heap)
                 ELSE LET c3 == [c1 EXCEPT !.hreq = LoopInput(c, out)]
                      IN  IF c.i = Len(c.req.cli.middlewares)
                          THEN AfterPrepare(c3, heap)
                          ELSE [c3 EXCEPT !.i = c.i + 1]
       IN  /\ bags' = heap
           /\ calls' = [calls EXCEPT ![p] = c2]
    /\ UNCHANGED <<ext, client, builders, derive, panicked>>

\* conn.Do with a second attempt after a failure.
TransportCalls_Retry(outcome) == IF outcome.failed THEN 2 ELSE 1

\* The calls StreamRequester.Do makes to conn.Do: one, whatever it returns.
TransportCalls(outcome) == 1

\* StreamRequester.Do after Prepare: res, err := req.cli.conn.Do(hreq).  The
\* transport reads the request's headers.  The stream builder returns the
\* open body; the buffered builders go on to read it.
Transport(p, outcome) ==
    /\ ~panicked
    /\ p \in 1..Len(calls)
    /\ calls[p].pc = "send"
    /\ LET c == calls[p]
           c1 == [c EXCEPT !.sends = @ + TransportCalls(outcome),
                           !.sent = <<HeapRead(bags, c.hreq.hdr)>>,
                           !.got = <<outcome>>,
                           !.rd = @ \cup {c.hreq.hdr}]
       IN  calls' = [calls EXCEPT ![p] =
                IF outcome.failed
                THEN Finish([c1 EXCEPT !.err = "error running request",
                                       !.status = 0, !.body = "none"], bags)
                ELSE IF c.req.kind = "stream"
                THEN Finish([c1 EXCEPT !.status = outcome.status, !.body = "open"], bags)
                ELSE [c1 EXCEPT !.pc = "read", !.status = outcome.status,
                                !.body = "open"]]
    /\ UNCHANGED <<ext, client, bags, builders, derive, panicked>>

\* The body left open when reading it fails.
BodyCloses_OnSuccess(ok) == IF ok THEN 1 ELSE 0

\* defer payload.Close(): the calls of Close Requester.Do makes on the body
\* core.Do returned, whether io.ReadAll succeeds (ok) or fails.
BodyCloses(ok) == 1

\* The status dropped along with the body.
ReadFailStatus_Zero(status) == 0

\* return status, nil, fmt.Errorf("error reading http body; %w", err): the
\* status Requester.Do returns when io.ReadAll fails.
ReadFailStatus(status) == status

\* Requester.Do after core.Do: defer payload.Close(); io.ReadAll(payload).
ReadBody(p, ok) ==
    /\ ~panicked
    /\ p \in 1..Len(calls)
    /\ calls[p].pc = "read"
    /\ LET c == [calls[p] EXCEPT !.closes = @ + BodyCloses(ok),
                                 !.read = <<ok>>]
       IN  calls' = [calls EXCEPT ![p] =
                IF ok THEN Finish([c EXCEPT !.body = "bytes"], bags)
                ELSE Finish([c EXCEPT !.body = "none",
                                      !.status = ReadFailStatus(@),
                                      !.err = "error reading http body"], bags)]
    /\ UNCHANGED <<ext, client, bags, builders, derive, panicked>>

Next ==
    \/ NewStreamRequest(MaxCallBuilders, <<>>)
    \/ NewRequest(MaxCallBuilders, <<>>)
    \/ NewJSONRequest(MaxCallBuilders, <<>>)
    \/ \E kind \in Kinds : ZeroValue(MaxCallBuilders, kind)
    \/ \E b \in 1..Len(builders) : WithTimeout(MaxCallBuilders, b, 5)
    \/ \E b \in 1..Len(builders) : WithHeader(MaxCallBuilders, b, "h1", "v1")
    \/ \E b \in 1..Len(builders), op \in {"Prepare", "Do"},
          marshalOk \in BOOLEAN, createOk \in BOOLEAN :
          StartCall(MaxCalls, b, op, marshalOk, createOk)
    \/ \E p \in 1..Len(calls) : RunMiddleware(p)
    \/ \E p \in 1..Len(calls), outcome \in TransportOutcomes :
          Transport(p, outcome)
    \/ \E p \in 1..Len(calls), ok \in BOOLEAN : ReadBody(p, ok)

Spec == Init /\ [][Next]_vars

\* Factory and zero-value builders, and the requests issued on them.
NextSolo ==
    \/ NewStreamRequest(MaxSoloBuilders, <<>>)
    \/ NewRequest(MaxSoloBuilders, <<>>)
    \/ NewJSONRequest(MaxSoloBuilders, <<>>)
    \/ \E kind \in Kinds : ZeroValue(MaxSoloBuilders, kind)
    \/ \E b \in 1..Len(builders), op \in {"Prepare", "Do"},
          marshalOk \in BOOLEAN, createOk \in BOOLEAN :
          StartCall(MaxSoloCalls, b, op, marshalOk, createOk)
    \/ \E p \in 1..Len(calls) : RunMiddleware(p)
    \/ \E p \in 1..Len(calls), outcome \in TransportOutcomes :
          Transport(p, outcome)
    \/ \E p \in 1..Len(calls), ok \in BOOLEAN : ReadBody(p, ok)

SpecSolo == Init /\ [][NextSolo]_vars

----------------------------------------------------------------------------
(* StreamRequester.Context, and what its callers do with the result *)

\* req.timeout: a time.Duration, signed.
Durations == -1..MaxDuration

Nows == 0..MaxNow

\* A context: where it comes from and its deadline (<<>>: none).
NilCtx == [base |-> "nil", deadline |-> <<>>]
Background == [base |-> "background", deadline |-> <<>>]
CallerCtx == [base |-> "caller", deadline |-> <<>>]
Parents == {NilCtx, Background, CallerCtx}

\* context.WithTimeout(ctx, d) called at time now: ctx with the deadline
\* now + d.
WithTimeoutCtx(ctx, now, d) == [ctx EXCEPT !.deadline = <<now + d>>]

\* A timeout of zero taken for a timeout.
Context_ZeroIsSet(timeout, ctx, now) ==
    LET c == IF ctx = NilCtx THEN Background ELSE ctx
    IN  IF timeout >= 0
        THEN [ctx |-> WithTimeoutCtx(c, now, timeout), cancel |-> "cancel"]
        ELSE [ctx |-> c, cancel |-> "nil"]

\* StreamRequester.Context: the context and the cancel function returned
\* ("nil": the nil func value).
Context(timeout, ctx, now) ==
    LET c == IF ctx = NilCtx THEN Background ELSE ctx
    IN  IF timeout > 0
        THEN [ctx |-> WithTimeoutCtx(c, now, timeout), cancel |-> "cancel"]
        ELSE [ctx |-> c, cancel |-> "nil"]

\* A builder with the given timeout, about to be asked for a context.
ContextInputs ==
    {[f |-> "Context", timeout |-> t, parent |-> p, now |-> n, out |-> <<>>,
      by |-> "", cancelled |-> FALSE, panic |-> FALSE] :
        t \in Durations, p \in Parents, n \in Nows}

InitContext ==
    /\ InitRequests(<<>>) /\ NoClients /\ NoServer
    /\ eval \in ContextInputs

\* ctx, cancel := req.Context(parent)
ContextCall ==
    /\ eval.f = "Context" /\ eval.out = <<>>
    /\ eval' = [eval EXCEPT
            !.out = <<Context(eval.timeout, eval.parent, eval.now)>>]
    /\ UNCHANGED <<client, bags, builders, derive, panicked, calls,
                   conns, clients, origin, web>>

\* A caller invokes the cancel function it was given: cancel(), or
\* defer cancel().  Calling a nil func panics.
InvokeCancel ==
    /\ eval.f = "Context" /\ eval.out # <<>> /\ eval.by = ""
    /\ eval' = [eval EXCEPT
            !.by = "caller",
            !.cancelled = eval.out[1].cancel # "nil",
            !.panic = eval.out[1].cancel = "nil"]
    /\ UNCHANGED <<client, bags, builders, derive, panicked, calls,
                   conns, clients, origin, web>>

\* Requester.Do: if cancel != nil { defer cancel() }
DeferCancel ==
    /\ eval.f = "Context" /\ eval.out # <<>> /\ eval.by = ""
    /\ eval' = [eval EXCEPT
            !.by = "Do",
            !.cancelled = eval.out[1].cancel # "nil"]
    /\ UNCHANGED <<client, bags, builders, derive, panicked, calls,
                   conns, clients, origin, web>>

NextContext == ContextCall \/ InvokeCancel \/ DeferCancel

SpecContext == InitContext /\ [][NextContext]_vars

----------------------------------------------------------------------------
(* Clients and their connections.  An http.Client lives in the heap        *)
(* `conns`; a Client holds its address.  Durations are in seconds.          *)

\* options.MaxRequestTimeout = 5 * time.Second
DefaultMaxRequestTimeout == 5

\* The timeouts callers ask for: negative, zero (unset), positive.
ClientTimeouts == {-1, 0, 2, DefaultMaxRequestTimeout}

\* The Timeout of the http.Client values callers make.
ConnTimeouts == {0, 2}

\* The timeouts SetTimeout is given: none, the conn's, another.
SetTimeouts == {0, 2, DefaultMaxRequestTimeout}

\* The caller's ClientOptions.Headers: none, or the map at address 1.
OptionHeaders == {Nil, 1}

\* The missing timeout left at zero.
sanitizeTimeout_Kept(t) == t

\* ClientOptions.sanitize, the timeout.
sanitizeTimeout(t) == IF t = 0 THEN DefaultMaxRequestTimeout ELSE t

\* &http.Client{..., Timeout: t}: a new value on the heap cs, with the
\* transport of the value at a.
NewHTTPClient(cs, a, t) ==
    [addr |-> Len(cs) + 1,
     heap |-> Append(cs, [Timeout |-> t, Transport |-> cs[a].Transport,
                          by |-> "client"])]

\* The timeout written into the http.Client the client was given.
OwnConn_InPlace(cs, a, t) ==
    IF t > 0 /\ cs[a].Timeout # t
    THEN [addr |-> a, heap |-> [cs EXCEPT ![a].Timeout = t]]
    ELSE [addr |-> a, heap |-> cs]

\* if defaultTimeout > 0 && conn.Timeout != defaultTimeout { conn =
\* &http.Client{...} }, of NewCustomClient and of SetTimeout: the conn the
\* client holds afterwards, and the heap.
OwnConn(cs, a, t) ==
    IF t > 0 /\ cs[a].Timeout # t
    THEN NewHTTPClient(cs, a, t)
    ELSE [addr |-> a, heap |-> cs]

\* ClientOptions.sanitize, the conn: NewConn(DefaultConnOptions.
\* WithRequestTimeout(t).WithTimeout(t)) when none was given.  NewConn
\* returns &http.Client{Transport: transport, Timeout: opts.requestTimeout}.
sanitizeConn(cs, a, t) ==
    IF a = Nil
    THEN [addr |-> Len(cs) + 1,
          heap |-> Append(cs, [Timeout |-> t, Transport |-> Len(cs) + 1,
                               by |-> "NewConn"])]
    ELSE [addr |-> a, heap |-> cs]

\* The timeout requests of client c run under: its conn's.
ConnTimeout(c) == conns[clients[c].conn].Timeout

\* The history entry of a Client value: the call that returned it, the
\* options it was given, the timeouts it had when returned, and the calls
\* of SetTimeout made on it since.
Origin(op, from, conn, mrt, a, t) ==
    [op |-> op, from |-> from, conn |-> conn, mrt |-> mrt,
     connTimeout |-> a, defaultTimeout |-> t, sets |-> 0]

\* The caller makes an http.Client: &http.Client{Timeout: t}, or
\* NewConn(opts.WithRequestTimeout(t)).
MakeConn(limit, t) ==
    /\ Cardinality({a \in 1..Len(conns) : conns[a].by = "caller"}) < limit
    /\ conns' = Append(conns, [Timeout |-> t, Transport |-> Len(conns) + 1,
                               by |-> "caller"])
    /\ UNCHANGED <<client, bags, builders, derive, panicked, calls,
                   clients, origin, eval, web>>

\* NewCustomClient(host, ClientOptions{Conn, MaxRequestTimeout, Headers}),
\* and NewClient(host), which passes ClientOptions{}.
NewCustomClient(limit, conn, mrt, headers) ==
    /\ Len(clients) < limit
    /\ conn \in {Nil} \cup {a \in 1..Len(conns) : conns[a].by = "caller"}
    /\ LET t == sanitizeTimeout(mrt)
           given == sanitizeConn(conns, conn, t)
           own == OwnConn(given.heap, given.addr, t)
           h == IF headers = Nil THEN Len(bags) + 1 ELSE headers
           heap == IF headers = Nil THEN Append(bags, EmptyHeader) ELSE bags
       IN  /\ conns' = own.heap
           /\ bags' = [heap EXCEPT ![h] = HeaderAdd(@, "User-Agent", "ua")]
           /\ clients' = Append(clients,
                   [host |-> "http://h", conn |-> own.addr,
                    defaultTimeout |-> t, dheaders |-> h,
                    middlewares |-> <<>>])
           /\ origin' = Append(origin,
                   Origin("NewCustomClient", 0, conn, mrt,
                          own.heap[own.addr].Timeout, t))
    /\ UNCHANGED <<client, builders, derive, panicked, calls, eval, web>>

\* Client.Clone: the same conn, a clone of the default headers.
ClientClone(limit, c) ==
    /\ Len(clients) < limit
    /\ c \in 1..Len(clients)
    /\ bags' = Append(bags, bags[clients[c].dheaders])
    /\ clients' = Append(clients,
            [clients[c] EXCEPT !.dheaders = Len(bags) + 1])
    /\ origin' = Append(origin,
            Origin("Clone", c, clients[c].conn, 0,
                   ConnTimeout(c), clients[c].defaultTimeout))
    /\ UNCHANGED <<client, builders, derive, panicked, calls, conns, eval, web>>

\* The calls of SetTimeout made so far.
RECURSIVE SetsUpTo(_)
SetsUpTo(n) == IF n = 0 THEN 0 ELSE origin[n].sets + SetsUpTo(n - 1)

\* Client.SetTimeout
SetTimeout(limit, c, t) ==
    /\ SetsUpTo(Len(origin)) < limit
    /\ c \in 1..Len(clients)
    /\ LET own == OwnConn(conns, clients[c].conn, t)
       IN  /\ conns' = own.heap
           /\ clients' = [clients EXCEPT ![c].defaultTimeout = t,
                                         ![c].conn = own.addr]
    /\ origin' = [origin EXCEPT ![c].sets = @ + 1]
    /\ UNCHANGED <<client, bags, builders, derive, panicked, calls, eval, web>>

\* The caller holds one header map to put in its options.
InitClients ==
    /\ client = ZeroClient
    /\ bags = <<EmptyHeader>>
    /\ builders = <<>> /\ derive = <<>> /\ panicked = FALSE /\ calls = <<>>
    /\ NoClients /\ NoServer /\ eval = NoEval

\* Construction: every combination of options.
NextCreate ==
    \/ \E t \in ConnTimeouts : MakeConn(MaxConns, t)
    \/ \E conn \in 0..Len(conns), mrt \in ClientTimeouts,
          headers \in OptionHeaders :
          NewCustomClient(MaxCreated, conn, mrt, headers)

SpecCreate == InitClients /\ [][NextCreate]_vars

\* Clients that share a conn, and their timeouts set afterwards.
NextClients ==
    \/ \E t \in ConnTimeouts : MakeConn(MaxConns, t)
    \/ \E conn \in 0..Len(conns), mrt \in ConnTimeouts :
          NewCustomClient(MaxClients, conn, mrt, Nil)
    \/ \E c \in 1..Len(clients) : ClientClone(MaxClients, c)
    \/ \E c \in 1..Len(clients), t \in SetTimeouts :
          SetTimeout(MaxSets, c, t)

SpecClients == InitClients /\ [][NextClients]_vars

----------------------------------------------------------------------------
(* combineURL.  A string is the sequence of its characters. *)

Chars == {"/", "a"}

Strings == UNION {[1..n -> Chars] : n \in 0..MaxStrLen}

\* strings.HasSuffix(s, "/")
HasSuffix(s) == Len(s) > 0 /\ s[Len(s)] = "/"

\* strings.HasPrefix(s, "/")
HasPrefix(s) == Len(s) > 0 /\ s[1] = "/"

\* The two strings joined by a slash, whatever they end and begin with.
combineURL_Join(base, endpoint) == base \o <<"/">> \o endpoint

\* combineURL
combineURL(base, endpoint) ==
    IF HasSuffix(base)
    THEN IF HasPrefix(endpoint)
         THEN base \o SubSeq(endpoint, 2, Len(endpoint))
         ELSE base \o endpoint
    ELSE IF HasPrefix(endpoint)
         THEN base \o endpoint
         ELSE base \o <<"/">> \o endpoint

InitURL ==
    /\ InitRequests(<<>>) /\ NoClients /\ NoServer
    /\ \E b \in Strings, e \in Strings :
           eval = [f |-> "combineURL", base |-> b, endpoint |-> e, out |-> <<>>]

\* Client.FullURL: combineURL(cli.host, endpoint)
CombineURLCall ==
    /\ eval.f = "combineURL" /\ eval.out = <<>>
    /\ eval' = [eval EXCEPT !.out = <<combineURL(eval.base, eval.endpoint)>>]
    /\ UNCHANGED <<client, bags, builders, derive, panicked, calls,
                   conns, clients, origin, web>>

NextURL == CombineURLCall

SpecURL == InitURL /\ [][NextURL]_vars

----------------------------------------------------------------------------
(* userAgent.  A string built by strings.Builder is the sequence of the    *)
(* pieces written to it.                                                    *)

httpAgentPrefix == "go-webservice/v0"

\* The environment userAgent reads: three variables ("" when unset) and
\* what user.Current() returns.
Environments ==
    [USER_AGENT : {"", "ua"}, SYSTEM : {"", "sys"}, COMPONENT : {"", "comp"},
     lookupFails : BOOLEAN, Name : {"", "Full Name"}, Username : {"", "user"},
     HomeDir : {"", "/home/user"}]

\* SYSTEM consulted before USER_AGENT.
userAgent_SystemFirst(env) ==
    LET agent == <<httpAgentPrefix>>
    IN  IF env.SYSTEM # ""
        THEN IF env.COMPONENT # ""
             THEN agent \o <<"/", env.SYSTEM, "/", env.COMPONENT>>
             ELSE agent \o <<"/", env.SYSTEM>>
        ELSE IF env.USER_AGENT # "" THEN agent \o <<"/", env.USER_AGENT>>
        ELSE IF env.lookupFails THEN <<"UNKNOWN">>
        ELSE IF env.Name # "" THEN agent \o <<"/", env.Name>>
        ELSE IF env.Username # "" THEN agent \o <<"/", env.Username>>
        ELSE IF env.HomeDir # "" THEN agent \o <<"/", env.HomeDir>>
        ELSE <<"UNKNOWN">>

\* userAgent
userAgent(env) ==
    LET agent == <<httpAgentPrefix>>
    IN  IF env.USER_AGENT # "" THEN agent \o <<"/", env.USER_AGENT>>
        ELSE IF env.SYSTEM # ""
        THEN IF env.COMPONENT # ""
             THEN agent \o <<"/", env.SYSTEM, "/", env.COMPONENT>>
             ELSE agent \o <<"/", env.SYSTEM>>
        ELSE IF env.lookupFails THEN <<"UNKNOWN">>
        ELSE IF env.Name # "" THEN agent \o <<"/", env.Name>>
        ELSE IF env.Username # "" THEN agent \o <<"/", env.Username>>
        ELSE IF env.HomeDir # "" THEN agent \o <<"/", env.HomeDir>>
        ELSE <<"UNKNOWN">>

InitAgent ==
    /\ InitRequests(<<>>) /\ NoClients /\ NoServer
    /\ \E env \in Environments :
           eval = [f |-> "userAgent", env |-> env, out |-> <<>>]

\* NewCustomClient: client.dheaders.Add("User-Agent", userAgent())
UserAgentCall ==
    /\ eval.f = "userAgent" /\ eval.out = <<>>
    /\ eval' = [eval EXCEPT !.out = <<userAgent(eval.env)>>]
    /\ UNCHANGED <<client, bags, builders, derive, panicked, calls,
                   conns, clients, origin, web>>

NextAgent == UserAgentCall

SpecAgent == InitAgent /\ [][NextAgent]_vars

----------------------------------------------------------------------------
(* Server.Start and Server.Stop.  Each call runs in a goroutine, a record   *)
(* in `threads`; the steps of different calls interleave.                    *)

ErrNotPreRunning == "server is not in pre-running state"
ErrServerClosed == "http: Server closed"
ErrListen == "listen failed"

\* `saw` is the value of srv.running the call read; `serving` is history:
\* whether a listener was accepting when Stop read the flag.
NewThread(op, pc) ==
    [op |-> op, pc |-> pc, err |-> "none", ret |-> "none", saw |-> 0,
     serving |-> FALSE]

\* The http.Server that srv.start() serves on.
Served == IF server.tls THEN "TLSServer" ELSE "Server"

\* The http.Server that srv.Stop() shuts down.
Stopped == "Server"

CompareAndSwap_Blind(cur, old, new) == [swapped |-> TRUE, value |-> new]

\* atomic.CompareAndSwapUint32(&srv.running, old, new)
CompareAndSwap(cur, old, new) ==
    [swapped |-> cur = old, value |-> IF cur = old THEN new ELSE cur]

\* go srv.Start()
GoStart(limit) ==
    /\ Len(threads) < limit
    /\ threads' = Append(threads, NewThread("Start", "cas"))
    /\ UNCHANGED <<server, requests>>
    /\ UNCHANGED <<client, bags, builders, derive, panicked, calls,
                   conns, clients, origin, eval>>

\* srv.Stop() called, or go srv.Stop() of handleShutdown
CallStop(limit) ==
    /\ Len(threads) < limit
    /\ threads' = Append(threads, NewThread("Stop", "load"))
    /\ UNCHANGED <<server, requests>>
    /\ UNCHANGED <<client, bags, builders, derive, panicked, calls,
                   conns, clients, origin, eval>>

\* Start, the compare-and-swap: the call goes on only if it swapped 0 for 1.
StartCAS(t) ==
    /\ threads[t].op = "Start" /\ threads[t].pc = "cas"
    /\ LET r == CompareAndSwap(server.running, 0, 1) IN
         /\ server' = [server EXCEPT !.running = r.value]
         /\ threads' =
              [threads EXCEPT ![t] =
                 IF r.swapped
                 THEN [@ EXCEPT !.pc = "start", !.saw = server.running]
                 ELSE [@ EXCEPT !.pc = "done", !.saw = server.running,
                                !.ret = ErrNotPreRunning]]
    /\ UNCHANGED requests
    /\ UNCHANGED <<client, bags, builders, derive, panicked, calls,
                   conns, clients, origin, eval>>

\* srv.start(): Echo.Start or Echo.StartTLS.  Serving an http.Server after
\* its Shutdown returns ErrServerClosed at once; otherwise the listener is
\* opened, or fails to open (address in use, unreadable certificate).
StartServe(t) ==
    /\ threads[t].op = "Start" /\ threads[t].pc = "start"
    /\ \/ /\ server[Served].inShutdown
          /\ threads' = [threads EXCEPT ![t].pc = "reset",
                                        ![t].err = ErrServerClosed]
          /\ UNCHANGED server
       \/ /\ ~server[Served].inShutdown
          /\ \E opened \in BOOLEAN :
               IF opened
               THEN /\ server' = [server EXCEPT ![Served].serving = TRUE]
                    /\ threads' = [threads EXCEPT ![t].pc = "serve"]
               ELSE /\ threads' = [threads EXCEPT ![t].pc = "reset",
                                                  ![t].err = ErrListen]
                    /\ UNCHANGED server
    /\ UNCHANGED requests
    /\ UNCHANGED <<client, bags, builders, derive, panicked, calls,
                   conns, clients, origin, eval>>

\* Serve returns ErrServerClosed once its http.Server is shut down.
ServeReturns(t) ==
    /\ threads[t].op = "Start" /\ threads[t].pc = "serve"
    /\ server[Served].inShutdown
    /\ server' = [server EXCEPT ![Served].serving = FALSE]
    /\ threads' = [threads EXCEPT ![t].pc = "reset",
                                  ![t].err = ErrServerClosed]
    /\ UNCHANGED requests
    /\ UNCHANGED <<client, bags, builders, derive, panicked, calls,
                   conns, clients, origin, eval>>

\* Start, after srv.start() returned: the flag is reset, and "http: Server
\* closed" is returned as nil.
StartReset(t) ==
    /\ threads[t].op = "Start" /\ threads[t].pc = "reset"
    /\ server' = [server EXCEPT !.running = 0]
    /\ threads' = [threads EXCEPT
                     ![t].pc = "done",
                     ![t].ret = IF threads[t].err = ErrServerClosed
                                THEN "nil" ELSE threads[t].err]
    /\ UNCHANGED requests
    /\ UNCHANGED <<client, bags, builders, derive, panicked, calls,
                   conns, clients, origin, eval>>

\* Stop, the load: nothing is done unless the flag reads 1.
StopLoad(t) ==
    /\ threads[t].op = "Stop" /\ threads[t].pc = "load"
    /\ threads' =
         [threads EXCEPT ![t] =
            IF server.running # 1
            THEN [@ EXCEPT !.pc = "done", !.saw = server.running,
                           !.serving = server[Served].serving,
                           !.ret = "nil"]
            ELSE [@ EXCEPT !.pc = "shutdown", !.saw = server.running,
                           !.serving = server[Served].serving]]
    /\ UNCHANGED <<server, requests>>
    /\ UNCHANGED <<client, bags, builders, derive, panicked, calls,
                   conns, clients, origin, eval>>

\* Stop, srv.Echo.Server.Shutdown(context.Background()) with no request in
\* flight: the listeners of that http.Server are closed and nil is returned.
StopShutdown(t) ==
    /\ threads[t].op = "Stop" /\ threads[t].pc = "shutdown"
    /\ server' = [server EXCEPT ![Stopped].inShutdown = TRUE]
    /\ threads' = [threads EXCEPT ![t].pc = "done", ![t].ret = "nil"]
    /\ UNCHANGED requests
    /\ UNCHANGED <<client, bags, builders, derive, panicked, calls,
                   conns, clients, origin, eval>>

InitServer ==
    /\ InitRequests(<<>>) /\ NoClients /\ eval = NoEval
    /\ \E tls \in BOOLEAN : server = NewServer(tls, TRUE, NoDiscarder)
    /\ threads = <<>>
    /\ requests = <<>>

NextServer ==
    \/ GoStart(MaxThreads)
    \/ CallStop(MaxThreads)
    \/ \E t \in 1..Len(threads) : StartCAS(t)
    \/ \E t \in 1..Len(threads) : StartServe(t)
    \/ \E t \in 1..Len(threads) : ServeReturns(t)
    \/ \E t \in 1..Len(threads) : StartReset(t)
    \/ \E t \in 1..Len(threads) : StopLoad(t)
    \/ \E t \in 1..Len(threads) : StopShutdown(t)

SpecServer == InitServer /\ [][NextServer]_vars

----------------------------------------------------------------------------
(* A request through the middleware chain of NewServer.  An error is the    *)
(* kind of its dynamic type and the code it carries; a response is Echo's   *)
(* Response: Committed, Status, the writes made to it and its body.          *)

NoError == [kind |-> "nil", code |-> 0]

\* panic("oops"): a value that is not an error
Text == [kind |-> "text", code |-> 0]

\* errors.New(...), fmt.Errorf(...)
Plain == [kind |-> "error", code |-> 0]

\* *echo.HTTPError
HTTPError(code) == [kind |-> "HTTPError", code |-> code]

\* webservice.Error
WebError(code) == [kind |-> "Error", code |-> code]

Errors == {Plain, HTTPError(404), WebError(404), WebError(700)}

PanicValues == Errors \cup {Text}

\* What a route handler does: the status it writes (0: it writes nothing),
\* then how it ends.
Outcomes ==
    {[result |-> "nil", value |-> NoError]}
    \cup {[result |-> "error", value |-> e] : e \in Errors}
    \cup {[result |-> "panic", value |-> v] : v \in PanicValues}

HandlerWrites == {0, 200, 301}

Methods == {"GET", "HEAD"}

\* URL paths: "/_/health" matches the route filter "/_/", "/my/path" does not.
Paths == {"/_/health", "/my/path"}

MatchString(path) == path = "/_/health"

NoResponse == [Committed |-> FALSE, Status |-> 0, writes |-> 0, body |-> "none"]

\* c.NoContent(code), c.JSONBlob(code, msg): Response.WriteHeader commits.
Write(res, code, body) ==
    [Committed |-> TRUE, Status |-> code, writes |-> res.writes + 1,
     body |-> body]

StatusOf_AsGiven(err) ==
    IF err.kind \in {"HTTPError", "Error"} THEN err.code ELSE 500

\* webErrorHandler, the status code for an error
StatusOf(err) ==
    IF err.kind = "HTTPError" THEN err.code
    ELSE IF err.kind = "Error"
         THEN IF err.code < 400 \/ err.code >= 600 THEN 500 ELSE err.code
         ELSE 500

webErrorHandler_Always(res, err, method) ==
    IF method = "HEAD" THEN Write(res, StatusOf(err), "none")
    ELSE Write(res, StatusOf(err), "message")

\* srv.webErrorHandler(err, c), which is also c.Error(err)
webErrorHandler(res, err, method) ==
    IF res.Committed THEN res
    ELSE IF method = "HEAD" THEN Write(res, StatusOf(err), "none")
         ELSE Write(res, StatusOf(err), "message")

\* AccessLogDiscarder.Discard: the result of MatchString is dropped.
Discard(d, status, path) ==
    IF d.level = AccessLogLevelError /\ status < 500 THEN TRUE
    ELSE IF d.level = AccessLogLevelWarn /\ (status = 404 \/ status < 400)
         THEN TRUE
    ELSE IF d.level = AccessLogLevelInfo
            /\ (status = 404 \/ (status >= 300 /\ status < 400))
         THEN TRUE
    ELSE FALSE

\* accessLogger.discard: the discarder of the options, or never.
discard(d, status, path) == IF d.set THEN Discard(d, status, path) ELSE FALSE

Incoming(method, path, wrote, outcome) ==
    [method |-> method, path |-> path, wrote |-> wrote, outcome |-> outcome,
     pc |-> "handler", response |-> NoResponse, err |-> NoError,
     panicking |-> FALSE, invocations |-> 0, panicLogs |-> 0,
     accessLogs |-> <<>>, discarded |-> FALSE]

\* The listener accepts a request; requests are handled one after another.
Receive(limit, method, path, wrote, outcome) ==
    /\ Len(requests) < limit
    /\ server[Served].serving
    /\ \A r \in 1..Len(requests) : requests[r].pc = "done"
    /\ requests' = Append(requests, Incoming(method, path, wrote, outcome))
    /\ UNCHANGED <<server, threads>>
    /\ UNCHANGED <<client, bags, builders, derive, panicked, calls,
                   conns, clients, origin, eval>>

\* The route handler runs: it may write a response, then it returns nil,
\* returns an error or panics.
RouteHandler(r) ==
    /\ requests[r].pc = "handler"
    /\ LET q == requests[r]
           res == IF q.wrote = 0 THEN q.response
                  ELSE Write(q.response, q.wrote, "handler")
       IN requests' =
            [requests EXCEPT ![r] =
               [q EXCEPT !.pc = "recover",
                         !.response = res,
                         !.err = IF q.outcome.result = "error"
                                 THEN q.outcome.value ELSE NoError,
                         !.panicking = (q.outcome.result = "panic")]]
    /\ UNCHANGED <<server, threads>>
    /\ UNCHANGED <<client, bags, builders, derive, panicked, calls,
                   conns, clients, origin, eval>>

\* recoverMiddleware: a panic is recovered, logged and handed to c.Error,
\* and the middleware then returns nil; anything else passes through.
Recover(r) ==
    /\ requests[r].pc = "recover"
    /\ LET q == requests[r]
           up == IF server.accessLog THEN "accesslog" ELSE "framework"
           err == IF q.outcome.value.kind = "text" THEN Plain
                  ELSE q.outcome.value
       IN requests' =
            [requests EXCEPT ![r] =
               IF q.panicking
               THEN [q EXCEPT !.pc = up,
                              !.panicking = FALSE,
                              !.panicLogs = @ + 1,
                              !.invocations = @ + 1,
                              !.response =
                                  webErrorHandler(q.response, err, q.method),
                              !.err = NoError]
               ELSE [q EXCEPT !.pc = up]]
    /\ UNCHANGED <<server, threads>>
    /\ UNCHANGED <<client, bags, builders, derive, panicked, calls,
                   conns, clients, origin, eval>>

\* accessLogger.Middleware: an error from the chain is handed to c.Error;
\* unless the request is discarded one record is logged; the error is
\* returned on.
AccessLog(r) ==
    /\ requests[r].pc = "accesslog"
    /\ LET q == requests[r]
           res == IF q.err # NoError
                  THEN webErrorHandler(q.response, q.err, q.method)
                  ELSE q.response
           drop == discard(server.discarder, res.Status, q.path)
           level == IF q.err # NoError THEN "error"
                    ELSE IF res.Status >= 500 /\ res.Status < 600
                         THEN "error" ELSE "info"
       IN requests' =
            [requests EXCEPT ![r] =
               [q EXCEPT !.pc = "framework",
                         !.response = res,
                         !.invocations = IF q.err # NoError THEN @ + 1 ELSE @,
                         !.discarded = drop,
                         !.accessLogs = IF drop THEN @ ELSE Append(@, level)]]
    /\ UNCHANGED <<server, threads>>
    /\ UNCHANGED <<client, bags, builders, derive, panicked, calls,
                   conns, clients, origin, eval>>

\* Echo.ServeHTTP: an error returned by the chain goes to HTTPErrorHandler.
Framework(r) ==
    /\ requests[r].pc = "framework"
    /\ LET q == requests[r] IN
         requests' =
            [requests EXCEPT ![r] =
               [q EXCEPT !.pc = "done",
                         !.response =
                             IF q.err # NoError
                             THEN webErrorHandler(q.response, q.err, q.method)
                             ELSE q.response,
                         !.invocations = IF q.err # NoError THEN @ + 1 ELSE @]]
    /\ UNCHANGED <<server, threads>>
    /\ UNCHANGED <<client, bags, builders, derive, panicked, calls,
                   conns, clients, origin, eval>>

\* A server of any access log options whose Start call is serving; the
\* discarder is read only when the access log is enabled.
InitHandle ==
    /\ InitRequests(<<>>) /\ NoClients /\ eval = NoEval
    /\ \E accessLog \in BOOLEAN, d \in Discarders :
         /\ ~accessLog => d = NoDiscarder
         /\ server = [NewServer(FALSE, accessLog, d) EXCEPT
                        !.running = 1, !.Server.serving = TRUE]
    /\ threads = <<[NewThread("Start", "serve") EXCEPT !.saw = 0]>>
    /\ requests = <<>>

NextHandle ==
    \/ \E method \in Methods, path \in Paths, wrote \in HandlerWrites,
          outcome \in Outcomes :
         Receive(MaxRequests, method, path, wrote, outcome)
    \/ \E r \in 1..Len(requests) : RouteHandler(r)
    \/ \E r \in 1..Len(requests) : Recover(r)
    \/ \E r \in 1..Len(requests) : AccessLog(r)
    \/ \E r \in 1..Len(requests) : Framework(r)

SpecHandle == InitHandle /\ [][NextHandle]_vars

----------------------------------------------------------------------------
(* Properties of the builder operations *)

Held == 1..Len(builders)

WithOps == {"WithHeader", "WithUniqueHeader", "WithHeaders", "WithTimeout"}

\* The step returned a builder from one of the four mutators.
MutatorStep ==
    /\ Len(builders') = Len(builders) + 1
    /\ derive'[Len(derive')].op \in WithOps

\* Two spellings of one header name (names compare case-insensitively).
SameName(k1, k2) ==
    \/ k1 = k2
    \/ {k1, k2} = {"h1", "H1"}
    \/ {k1, k2} = {"content-type", "Content-Type"}

\* The first builder of b's chain: the factory's (or zero) value.
RECURSIVE Root(_)
Root(b) == IF derive[b].parent = 0 THEN b ELSE Root(derive[b].parent)

\* b descends from a by a chain of calls (or is a).
RECURSIVE Descends(_, _)
Descends(b, a) ==
    \/ b = a
    \/ derive[b].parent # 0 /\ Descends(derive[b].parent, a)

\* C1: a call of WithHeader, WithUniqueHeader, WithHeaders or WithTimeout on
\* a builder leaves every builder that existed before the call, the
\* receiver included, with the header values and the timeout it had.
C1_MutatorLeavesReceiver ==
    [][MutatorStep =>
        \A b \in Held :
            /\ builders'[b] = builders[b]
            /\ builders[b].headers # Nil =>
                   bags'[builders[b].headers] = bags[builders[b].headers]]_vars

\* C1 witness: a mutator was called on a builder that holds values under the
\* name the call wrote.
C1_Witness ==
    \E n \in Held :
        /\ derive[n].op \in {"WithHeader", "WithUniqueHeader"}
        /\ HeaderValues(Headers(builders[derive[n].parent]), derive[n].k) # <<>>
        /\ Headers(builders[n]) # Headers(builders[derive[n].parent])

\* C2: of two builders derived from one parent, neither sees in its headers
\* a With* call made later on the other's chain: B2 still has the header
\* values it was returned with.
C2_SiblingsIndependent ==
    \A b2 \in Held : \A n \in Held :
        /\ n > b2
        /\ derive[n].op \in WithOps
        /\ Root(n) = Root(b2)
        /\ ~Descends(n, b2)
        => Headers(builders[b2]) = derive[b2].snap

\* C2 witness: B1 and B2 both derived from B, and after B2 was returned a
\* header was added on B1's chain.
C2_Witness ==
    \E b1, b2, n \in Held :
        /\ b1 < b2 /\ b2 < n
        /\ derive[b1].parent = derive[b2].parent /\ derive[b1].parent # 0
        /\ derive[b1].op \in WithOps /\ derive[b2].op \in WithOps
        /\ derive[n].parent = b1 /\ derive[n].op = "WithHeader"
        /\ Headers(builders[n]) # Headers(builders[b1])

\* C5 (as claimed): no two builder values hold the same header map.
C5_NoSharedStorage ==
    \A b1, b2 \in Held :
        b1 # b2 /\ builders[b1].headers # Nil
        => builders[b1].headers # builders[b2].headers

\* C6: the builder WithHeader(k, v) returns holds, under every spelling of
\* k, the receiver's values for k in order followed by v, and under every
\* other name what the receiver holds.
C6_WithHeaderCumulative ==
    \A n \in Held :
        derive[n].op = "WithHeader" =>
            LET new == Headers(builders[n])
                old == Headers(builders[derive[n].parent])
            IN  /\ \A k \in RawKeys \cup HeaderNames :
                      HeaderValues(new, k) =
                          IF SameName(k, derive[n].k)
                          THEN HeaderValues(old, k) \o <<derive[n].v>>
                          ELSE HeaderValues(old, k)

\* C6 witness: WithHeader on a builder that already holds two values under
\* the name, given in another spelling.
C6_Witness ==
    \E n \in Held :
        /\ derive[n].op = "WithHeader"
        /\ derive[n].k = "h1"
        /\ Len(Headers(builders[derive[n].parent])["H1"]) = 2
        /\ Headers(builders[derive[n].parent])["H1"][1] # derive[n].v

\* C7: the builder WithUniqueHeader(k, v) returns holds exactly <<v>> under
\* k and the receiver's values under every other name; the same call on the
\* result returns the same headers.
C7_WithUniqueHeaderReplaces ==
    \A n \in Held :
        derive[n].op = "WithUniqueHeader" =>
            LET new == Headers(builders[n])
                p == derive[n].parent
                old == Headers(builders[p])
            IN  /\ \A k \in RawKeys \cup HeaderNames :
                      HeaderValues(new, k) =
                          IF SameName(k, derive[n].k) THEN <<derive[n].v>>
                          ELSE HeaderValues(old, k)
                /\ ( /\ derive[p].op = "WithUniqueHeader"
                     /\ SameName(derive[p].k, derive[n].k)
                     /\ derive[p].v = derive[n].v ) => new = old

\* C7 witness: WithUniqueHeader over two earlier values, and the same call
\* made again on its result.
C7_Witness ==
    \E n \in Held :
        /\ derive[n].op = "WithUniqueHeader"
        /\ derive[derive[n].parent].op = "WithUniqueHeader"
        /\ derive[derive[n].parent].v = derive[n].v
        /\ SameName(derive[derive[n].parent].k, derive[n].k)
        /\ Len(HeaderValues(
                 Headers(builders[derive[derive[n].parent].parent]),
                 derive[n].k)) >= 1

\* A JSON builder that came from NewJSONRequest, directly or by With* calls.
FromNewJSONRequest(b) ==
    builders[b].kind = "json" /\ derive[Root(b)].op = "New"

\* The call that returned b wrote under the name Content-Type.
NamesContentType(b) ==
    \/ /\ derive[b].op \in {"WithHeader", "WithUniqueHeader"}
       /\ Canon(derive[b].k) = "Content-Type"
    \/ /\ derive[b].op = "WithHeaders"
       /\ \E j \in 1..Len(derive[b].it) :
              Canon(derive[b].it[j].k) = "Content-Type"

\* Some With* call of b's chain wrote under the name Content-Type.
RECURSIVE ChainNamesContentType(_)
ChainNamesContentType(b) ==
    IF derive[b].parent = 0 THEN FALSE
    ELSE NamesContentType(b) \/ ChainNamesContentType(derive[b].parent)

\* C14 (as claimed): every JSON builder, from NewJSONRequest with any
\* options or derived from one by any chain of With* calls, holds exactly
\* one Content-Type value, application/json.
C14_AlwaysOneContentType ==
    \A b \in Held :
        FromNewJSONRequest(b) =>
            HeaderValues(Headers(builders[b]), "Content-Type")
                = <<"application/json">>

\* C14 (amended): the same, for the builders no With* call of whose chain
\* wrote under the name Content-Type, in any spelling.
C14_OneContentTypeUnlessNamed ==
    \A b \in Held :
        FromNewJSONRequest(b) /\ ~ChainNamesContentType(b) =>
            HeaderValues(Headers(builders[b]), "Content-Type")
                = <<"application/json">>

\* C14 witness: NewJSONRequest was given an option writing Content-Type,
\* and the builder went through WithHeader under another name.
C14_Witness ==
    \E b \in Held :
        /\ FromNewJSONRequest(b) /\ ~ChainNamesContentType(b)
        /\ derive[b].op = "WithHeader"
        /\ derive[Root(b)].opts # <<>>

\* The step changed the client's default headers.
DefaultsStep == bags'[client.dheaders] # bags[client.dheaders]

\* The step returned a builder from a factory called without options.
FactoryStep ==
    /\ Len(builders') = Len(builders) + 1
    /\ derive'[Len(derive')].op = "New"
    /\ derive'[Len(derive')].opts = <<>>

\* C21: a change of the client's default headers leaves every builder that
\* exists with the headers it had; a builder made afterwards holds the
\* defaults as they are then (the JSON builder with its Content-Type).
C21_DefaultsSnapshot ==
    [][/\ DefaultsStep =>
              \A b \in Held :
                  /\ builders'[b] = builders[b]
                  /\ bags'[builders[b].headers] = bags[builders[b].headers]
       /\ FactoryStep =>
              LET n == Len(builders')
                  now == bags[client.dheaders]
              IN  bags'[builders'[n].headers] =
                      IF builders'[n].kind = "json"
                      THEN HeaderSet(now, "Content-Type", "application/json")
                      ELSE now]_vars

\* C21 witness: a builder made before the defaults changed and one made
\* after: the first has the old defaults, the second the new ones.
C21_Witness ==
    \E b1, b2 \in Held :
        /\ b1 < b2
        /\ derive[b1].op = "New" /\ derive[b2].op = "New"
        /\ builders[b1].kind = "stream" /\ builders[b2].kind = "stream"
        /\ Headers(builders[b1]) = derive[b1].snap
        /\ Headers(builders[b2]) = bags[client.dheaders]
        /\ HeaderValues(Headers(builders[b1]), "h1") = <<>>
        /\ HeaderValues(Headers(builders[b2]), "h1") # <<>>

\* Both builders are there: the one made with the options and the one at
\* the end of the corresponding With* calls.
BothMade ==
    /\ eval.f = "options" /\ WithOptions # 0
    /\ Cardinality(Chain) = Len(eval.opts) + 1

\* Some option writes the name Content-Type.
OptionNamesContentType ==
    \E i \in 1..Len(eval.opts) :
        \/ Canon(eval.opts[i].k) = "Content-Type"
        \/ \E j \in 1..Len(eval.opts[i].it) :
               Canon(eval.opts[i].it[j].k) = "Content-Type"

\* Some RequestHeaders map holds two spellings of one header name.
OptionMapAmbiguous ==
    \E i \in 1..Len(eval.opts) :
        \E j, l \in 1..Len(eval.opts[i].it) :
            /\ j # l
            /\ Canon(eval.opts[i].it[j].k) = Canon(eval.opts[i].it[l].k)

\* C22 (as claimed): for each factory and every list of options, the
\* builder made with the options has the headers and the timeout of the
\* builder made without them and taken through the corresponding With*
\* calls in the same order.
C22_OptionsAsChain ==
    BothMade =>
        /\ Headers(builders[WithOptions]) = Headers(builders[Tip])
        /\ builders[WithOptions].timeout = builders[Tip].timeout

\* C22 (amended): the same, except for NewJSONRequest with an option that
\* names Content-Type, and for a RequestHeaders map that holds two
\* spellings of one name.
C22_OptionsAsChainUnlessNamed ==
    /\ BothMade
    /\ ~(eval.kind = "json" /\ OptionNamesContentType)
    /\ ~OptionMapAmbiguous
    => /\ Headers(builders[WithOptions]) = Headers(builders[Tip])
       /\ builders[WithOptions].timeout = builders[Tip].timeout

\* C22 witness: a JSON builder made with two options writing one name,
\* Set then Add, and the same made with WithUniqueHeader then WithHeader.
C22_Witness ==
    /\ BothMade
    /\ eval.kind = "json"
    /\ eval.opts = <<Opt("RequestUniqueHeader", "H1", "v2", 0, <<>>),
                     Opt("RequestHeader", "h1", "v1", 0, <<>>)>>
    /\ HeaderValues(Headers(builders[Tip]), "H1") = <<"v2", "v1">>

----------------------------------------------------------------------------
(* Properties of Prepare and Do *)

Started == 1..Len(calls)

Ended(p) == calls[p].pc = "done"

\* The call ran alone: no other call was in progress at any time during it.
Alone(p) == calls[p].with = {}

\* C3 (as claimed): two calls of the same method on the same builder value,
\* one after the other, prepare requests with the same headers, and each
\* leaves the builder's header values as it found them.
C3_ReplaySafe ==
    \A p, q \in Started :
        /\ p < q /\ Ended(p) /\ Ended(q) /\ Alone(p) /\ Alone(q)
        /\ calls[p].req = calls[q].req /\ calls[p].op = calls[q].op
        /\ calls[p].prepared # <<>> /\ calls[q].prepared # <<>>
        => /\ calls[p].prepared = calls[q].prepared
           /\ calls[p].after = <<calls[p].before>>
           /\ calls[q].after = <<calls[q].before>>

\* C4 (as claimed): of two calls in progress at the same time on the same
\* builder value, neither writes a map the other reads or writes.
C4_NoSharedWrites ==
    \A p, q \in Started :
        /\ p # q /\ q \in calls[p].with
        /\ calls[p].req = calls[q].req
        => calls[p].wr \cap (calls[q].rd \cup calls[q].wr) = {}

\* C8: Prepare and Do on a zero-value builder end at once with an error, no
\* request, status 0 and no body; no middleware ran, nothing was sent.
C8_ZeroBuilderRejected ==
    \A p \in Started :
        derive[Root(calls[p].b)].op = "Zero" =>
            /\ Ended(p)
            /\ calls[p].err # ""
            /\ calls[p].request = NoRequest
            /\ calls[p].status = 0 /\ calls[p].body = "none"
            /\ calls[p].ran = <<>> /\ calls[p].sends = 0

\* C8 witness: Do on the zero-value buffered builder has returned.
C8_Witness ==
    \E p \in Started :
        /\ derive[calls[p].b].op = "Zero"
        /\ calls[p].req.kind = "buffered" /\ calls[p].op = "Do"
        /\ Ended(p)

\* C9: the middlewares run in registration order, each given the request
\* the one before returned; the first that fails ends the loop: no later
\* one runs, Prepare returns no request and an error carrying its index, and
\* Do returns status 0 and no body without calling the transport.
C9_MiddlewareOrder ==
    \A p \in Started :
        LET c == calls[p]
            mws == c.req.cli.middlewares
            n == Len(c.ran)
        IN  /\ c.ran = [j \in 1..n |-> j]
            /\ n >= 1 => c.seen[1] = 1
            /\ \A j \in 2..n : c.seen[j] = c.rets[j - 1]
            /\ c.pc \in {"send", "read"} \/ (Ended(p) /\ c.prepared # <<>>)
                   => /\ n = Len(mws)
                      /\ \A j \in 1..n : mws[j] # "fail"
            /\ c.request # NoRequest /\ n >= 1 => c.request.id = c.rets[n]
            /\ \A j \in 1..n : mws[j] = "fail" =>
                   /\ j = n
                   /\ Ended(p)
                   /\ c.err = "failed to run middleware" /\ c.errIdx = j - 1
                   /\ c.request = NoRequest
                   /\ c.status = 0 /\ c.body = "none" /\ c.sends = 0

\* C9 witness: the second of two middlewares failed, in a Do.
C9_Witness ==
    \E p \in Started :
        /\ calls[p].op = "Do"
        /\ calls[p].ran = <<1, 2>>
        /\ calls[p].errIdx = 1

\* C10: when conn.Do fails, Do returns an error with status 0 and no body,
\* and conn.Do was called once; no Do calls it more than once.
C10_TransportFailure ==
    \A p \in Started :
        /\ calls[p].sends <= 1
        /\ calls[p].got # <<>> /\ calls[p].got[1].failed =>
               /\ Ended(p)
               /\ calls[p].err # ""
               /\ calls[p].status = 0
               /\ calls[p].body = "none" /\ calls[p].closes = 0
               /\ calls[p].sends = 1

\* C10 witness: the transport failed in a Do of the JSON builder.
C10_Witness ==
    \E p \in Started :
        /\ calls[p].req.kind = "json"
        /\ calls[p].got = <<[failed |-> TRUE, status |-> 0]>>
        /\ Ended(p)

\* A Do of the buffered or of the JSON builder: Requester.Do.
BufferedDo(p) ==
    calls[p].op = "Do" /\ calls[p].req.kind \in {"buffered", "json"}

\* C11: when the transport call of a buffered Do succeeds, the body is
\* closed exactly once by the time Do returns, whether reading it succeeded
\* or failed, and never more than once; what the caller gets is bytes or
\* nothing, never the open stream.
C11_BodyClosedOnce ==
    \A p \in Started :
        BufferedDo(p) =>
            /\ calls[p].closes <= 1
            /\ Ended(p) /\ calls[p].got # <<>> /\ ~calls[p].got[1].failed
                   => /\ calls[p].closes = 1
                      /\ calls[p].body \in {"bytes", "none"}

\* C11 witness: a buffered Do has returned after the transport succeeded
\* and reading the body failed.
C11_Witness ==
    \E p \in Started :
        /\ BufferedDo(p) /\ Ended(p)
        /\ calls[p].got # <<>> /\ ~calls[p].got[1].failed
        /\ calls[p].read = <<FALSE>>

\* C12: when the transport call of a buffered Do returns status s and
\* reading the body fails, Do returns s, an error and no body bytes.
C12_ReadFailureKeepsStatus ==
    \A p \in Started :
        BufferedDo(p) /\ Ended(p) /\ calls[p].read = <<FALSE>> =>
            /\ calls[p].status = calls[p].got[1].status
            /\ calls[p].status # 0
            /\ calls[p].err # ""
            /\ calls[p].body = "none"

\* C12 witness: the transport answered 500 and the read failed, on the
\* buffered builder.
C12_Witness ==
    \E p \in Started :
        /\ calls[p].req.kind = "buffered" /\ calls[p].op = "Do" /\ Ended(p)
        /\ calls[p].got = <<[failed |-> FALSE, status |-> 500]>>
        /\ calls[p].read = <<FALSE>>

\* C13: Prepare and Do of the JSON builder with a payload that cannot be
\* serialized end at once with an error, status 0, no body and no request;
\* no request was constructed, no middleware ran, nothing was sent.
C13_UnserializablePayload ==
    \A p \in Started :
        calls[p].req.kind = "json" /\ ~calls[p].marshal =>
            /\ Ended(p)
            /\ calls[p].err # ""
            /\ calls[p].status = 0 /\ calls[p].body = "none"
            /\ calls[p].request = NoRequest
            /\ calls[p].hreq = NoRequest /\ calls[p].ids = 0
            /\ calls[p].ran = <<>> /\ calls[p].sends = 0

\* C13 witness: Do with such a payload, on a JSON builder of a client that
\* has middlewares, has returned.
C13_Witness ==
    \E p \in Started :
        /\ calls[p].req.kind = "json" /\ ~calls[p].marshal
        /\ calls[p].op = "Do"
        /\ calls[p].req.cli.conn # Nil
        /\ calls[p].req.cli.middlewares # <<>>
        /\ Ended(p)

----------------------------------------------------------------------------
(* Properties of Context *)

Returned == eval.f = "Context" /\ eval.out # <<>>

\* C15 (as claimed): Context(parent) returns the parent with the deadline
\* now + timeout when the timeout is positive; otherwise it returns the
\* parent itself and a cancel function the caller can invoke.
C15_ContextNoopCancel ==
    Returned /\ eval.parent # NilCtx =>
        /\ eval.timeout > 0 =>
               eval.out[1].ctx =
                   WithTimeoutCtx(eval.parent, eval.now, eval.timeout)
        /\ eval.timeout <= 0 =>
               /\ eval.out[1].ctx = eval.parent
               /\ eval.out[1].cancel # "nil"
               /\ ~eval.panic

\* C15 (amended): with a positive timeout Context returns the parent
\* (context.Background() for a nil parent) with the deadline now + timeout
\* and a cancel function; otherwise it returns that parent itself and the
\* nil cancel function: Requester.Do, which checks for nil, does not
\* panic, a caller that invokes it does.
C15_ContextNilCancel ==
    Returned =>
        LET given == IF eval.parent = NilCtx THEN Background ELSE eval.parent
        IN  /\ eval.timeout > 0 =>
                   /\ eval.out[1].ctx =
                          WithTimeoutCtx(given, eval.now, eval.timeout)
                   /\ eval.out[1].cancel # "nil"
                   /\ ~eval.panic
                   /\ eval.by # "" => eval.cancelled
            /\ eval.timeout <= 0 =>
                   /\ eval.out[1].ctx = given
                   /\ eval.out[1].cancel = "nil"
                   /\ ~eval.cancelled
                   /\ eval.panic <=> eval.by = "caller"

\* C15 witness: Context on a builder with a negative timeout returned, and
\* Requester.Do went past its deferred cancel.
C15_Witness ==
    /\ Returned /\ eval.timeout < 0 /\ eval.parent = CallerCtx
    /\ eval.by = "Do"

----------------------------------------------------------------------------
(* Properties of combineURL and userAgent *)

\* s without its last character when that is a slash.
DropTrailingSlash(s) ==
    IF Len(s) > 0 /\ s[Len(s)] = "/" THEN SubSeq(s, 1, Len(s) - 1) ELSE s

\* s without its first character when that is a slash.
DropLeadingSlash(s) ==
    IF Len(s) > 0 /\ s[1] = "/" THEN SubSeq(s, 2, Len(s)) ELSE s

\* C16: combineURL(B, E) is B without one trailing slash, a slash, and E
\* without one leading slash; an empty E gives B when B ends with a slash
\* and B followed by a slash otherwise; the result begins with B less its
\* trailing slash.
C16_CombineURL ==
    eval.f = "combineURL" /\ eval.out # <<>> =>
        LET B == eval.base
            E == eval.endpoint
            r == eval.out[1]
            stem == DropTrailingSlash(B)
        IN  /\ r = stem \o <<"/">> \o DropLeadingSlash(E)
            /\ E = <<>> => r = (IF HasSuffix(B) THEN B ELSE B \o <<"/">>)
            /\ Len(r) > Len(stem) /\ SubSeq(r, 1, Len(stem)) = stem

\* C16 witness: a base ending with a slash joined to an endpoint beginning
\* with two.
C16_Witness ==
    /\ eval.f = "combineURL" /\ eval.out # <<>>
    /\ eval.base = <<"a", "/">>
    /\ eval.endpoint = <<"/", "/", "a">>

\* C17: the User-Agent is prefix/USER_AGENT when USER_AGENT is set;
\* otherwise prefix/SYSTEM, with /COMPONENT when that is set too, when
\* SYSTEM is set; otherwise prefix/ the user's name, else username, else
\* home directory; otherwise, the lookup failing or all three empty,
\* UNKNOWN.  It is never empty, and COMPONENT without SYSTEM changes
\* nothing.
C17_UserAgentPrecedence ==
    eval.f = "userAgent" /\ eval.out # <<>> =>
        LET e == eval.env
            r == eval.out[1]
            p == httpAgentPrefix
            user == IF e.lookupFails THEN ""
                    ELSE IF e.Name # "" THEN e.Name
                    ELSE IF e.Username # "" THEN e.Username
                    ELSE e.HomeDir
        IN  /\ e.USER_AGENT # "" => r = <<p, "/", e.USER_AGENT>>
            /\ e.USER_AGENT = "" /\ e.SYSTEM # "" =>
                   r = IF e.COMPONENT # ""
                       THEN <<p, "/", e.SYSTEM, "/", e.COMPONENT>>
                       ELSE <<p, "/", e.SYSTEM>>
            /\ e.USER_AGENT = "" /\ e.SYSTEM = "" =>
                   r = IF user # "" THEN <<p, "/", user>> ELSE <<"UNKNOWN">>
            /\ r # <<>> /\ \A j \in 1..Len(r) : r[j] # ""
            /\ e.SYSTEM = "" => r = userAgent([e EXCEPT !.COMPONENT = ""])

\* C17 witness: USER_AGENT and SYSTEM are both set.
C17_Witness ==
    /\ eval.f = "userAgent" /\ eval.out # <<>>
    /\ eval.env.USER_AGENT # "" /\ eval.env.SYSTEM # ""
    /\ eval.env.COMPONENT # ""

----------------------------------------------------------------------------
(* Properties of the clients and their connections *)

Made == 1..Len(clients)

C19_ZeroDeactivatesTimeout ==
    \A c \in Made :
        /\ origin[c].op = "NewCustomClient" /\ origin[c].sets = 0
        /\ origin[c].mrt = 0
        => /\ clients[c].defaultTimeout = 0
           /\ ConnTimeout(c) = 0

\* C20: no step changes the Timeout (or anything else) of an http.Client
\* that exists, the caller's included; a client on which SetTimeout is not
\* the call being made keeps its fields and the timeout its requests run
\* under.
C20_NoTimeoutLeak ==
    [][/\ \A a \in 1..Len(conns) : conns'[a] = conns[a]
       /\ \A d \in Made :
              origin'[d].sets = origin[d].sets =>
                  /\ clients'[d] = clients[d]
                  /\ conns'[clients'[d].conn].Timeout = ConnTimeout(d)]_vars

\* C20 witness: a client and its clone shared a conn, SetTimeout was called
\* on one of them, and their requests now run under different timeouts.
C20_Witness ==
    \E c, d \in Made :
        /\ origin[d].op = "Clone" /\ origin[d].from = c
        /\ origin[c].sets + origin[d].sets = 1
        /\ clients[c].conn # clients[d].conn
        /\ ConnTimeout(c) # ConnTimeout(d)

\* C23 (as claimed): NewCustomClient leaves the caller's options as they
\* were: the Headers map the caller holds (address 1, made empty) has the
\* contents it had, and every client made from the options holds exactly
\* one User-Agent default value.
C23_OptionsUntouched ==
    /\ bags[1] = EmptyHeader
    /\ \A c \in Made :
           origin[c].op = "NewCustomClient" =>
               Len(HeaderValues(bags[clients[c].dheaders], "User-Agent")) = 1

\* C30 (as claimed): whatever SetTimeout calls were made, the timeout of a
\* client's conn is the client's default timeout.
C30_ConnTimeoutIsDefault ==
    \A c \in Made : ConnTimeout(c) = clients[c].defaultTimeout


----------------------------------------------------------------------------
(* Properties of the Server *)

Starts == {t \in 1..Len(threads) : threads[t].op = "Start"}

Stops == {t \in 1..Len(threads) : threads[t].op = "Stop"}

\* The Start calls between their successful compare-and-swap and their reset.
Between == {t \in Starts : threads[t].pc \in {"start", "serve", "reset"}}

Serving == {t \in Starts : threads[t].pc = "serve"}

\* The running flag is 1 exactly while one Start call is between its swap
\* and its reset, and at most one call is serving.
RunningIsOneStart ==
    /\ Cardinality(Between) <= 1
    /\ Cardinality(Serving) <= 1
    /\ (server.running = 1) <=> (Between # {})

\* C24: a Stop that found the server running and serving returns nil, and
\* the Start call blocked in Serve then returns nil: the http.Server it
\* serves on is the one that was shut down.
C24_StopEndsStart ==
    \A s \in Stops :
        (threads[s].pc = "done" /\ threads[s].saw = 1 /\ threads[s].serving)
        => /\ threads[s].ret = "nil"
           /\ \A t \in Serving : server[Served].inShutdown

\* C28: under any interleaving of Start calls at most one is serving; a
\* Start made while another is running returns "server is not in
\* pre-running state", opens no listener and leaves the running flag alone;
\* the flag is 1 exactly while one call is between its swap and its reset.
C28_OneStartAtATime ==
    [][/\ RunningIsOneStart'
       /\ \A t \in Starts :
            (threads[t].pc = "cas" /\ threads'[t].pc # "cas")
            => IF Between # {}
               THEN /\ threads'[t].pc = "done"
                    /\ threads'[t].ret = ErrNotPreRunning
                    /\ server' = server
               ELSE /\ threads'[t].pc = "start"
                    /\ server'.running = 1]_vars

C28_Witness ==
    \E t, u \in Starts :
        /\ threads[t].pc = "serve"
        /\ threads[u].pc = "done" /\ threads[u].ret = ErrNotPreRunning

\* C29: one Start call in its own goroutine and one Stop call made after
\* the goroutine was launched, without TLS: once Stop has returned nil the
\* Start call is not left blocked in Serve on a server nobody shuts down.
C29_StopNeverNoop ==
    (/\ ~server.tls
     /\ Len(threads) = 2
     /\ threads[1].op = "Start" /\ threads[2].op = "Stop"
     /\ threads[2].pc = "done" /\ threads[2].ret = "nil")
    => (threads[1].pc = "serve" => server[Served].inShutdown)


----------------------------------------------------------------------------
(* Properties of the middleware chain *)

Handled == {r \in 1..Len(requests) : requests[r].pc = "done"}

PastRecover ==
    {r \in 1..Len(requests) :
        requests[r].pc \in {"accesslog", "framework", "done"}}

PastAccessLog ==
    {r \in 1..Len(requests) :
        server.accessLog /\ requests[r].pc \in {"framework", "done"}}

Panicked(r) == requests[r].outcome.result = "panic"

\* Handling requests leaves the server as Start made it: marked running,
\* its listener accepting.
StillRunning ==
    /\ server.running = 1
    /\ Serving # {}
    /\ server[Served].serving /\ ~server[Served].inShutdown

CarriesCode(v) ==
    \/ v.kind = "HTTPError"
    \/ v.kind = "Error" /\ v.code >= 400 /\ v.code < 600

ReturnedError(r) == requests[r].outcome.result = "error"

\* C26: for a request whose handler returned an error the response is
\* written at most once, however often the error handler is invoked: once
\* the response is committed no step changes its status, its body or the
\* number of writes made to it.
C26_WrittenOnce ==
    [][\A r \in 1..Len(requests) :
         ReturnedError(r) =>
           /\ requests'[r].response.writes <= 1
           /\ requests[r].response.Committed
              => requests'[r].response = requests[r].response]_vars

C26_Witness ==
    \E r \in Handled :
        /\ ReturnedError(r)
        /\ requests[r].wrote = 0
        /\ requests[r].invocations = 2
        /\ requests[r].response.writes = 1

\* C27: with a discarder built by NewAccessLogDiscarder(level, routeFilter),
\* every request whose path matches routeFilter is discarded, whatever its
\* status and the level, and no access log record is written for it.
C27_IgnoredRoutesDiscarded ==
    \A r \in PastAccessLog :
        (/\ server.discarder.set /\ server.discarder.filter
         /\ MatchString(requests[r].path))
        => requests[r].discarded /\ requests[r].accessLogs = <<>>

====
